---- MODULE Spec2Model ----
(***************************************************************************)
(* UWES-9 work engagement survey (src/app.py): the scoring functions       *)
(* get_score_level, calculate_scores and get_interpretation, and the       *)
(* Streamlit session of main(): nine sliders, the submit button, the       *)
(* results tab, the CSV download button and the reset button.              *)
(*                                                                         *)
(* A score is a Python float obtained by dividing an integer sum by an     *)
(* integer count; it is kept here as the exact fraction [num, den], and a  *)
(* comparison with a threshold such as 2.5 is made by cross-multiplying.   *)
(***************************************************************************)
EXTENDS Integers, FiniteSets, Sequences, TLC

\* ---- bounds ----
\* slider changes made by the user in one session
MaxChanges == 2
\* items of a uniform answer sheet that a scoring input overwrites or drops
MaxEdits == 2

\* ---- the questionnaire ----
\* the keys of QUESTIONS, in insertion order
Items == 1..9

\* the keys of SCALE_OPTIONS, the options of every slider
ScaleOptions == 0..6

\* value=st.session_state.responses.get(q_num, 3)
DefaultResponse == 3

\* {} : the empty dict
EmptyDict == <<>>

\* a dict with integer keys is a function; the keys are its DOMAIN
Keys(d) == DOMAIN d

\* sum(d[i] for i in ids), for ids that are keys of d
RECURSIVE SumOver(_, _)
SumOver(d, ids) ==
    IF ids = {} THEN 0
    ELSE LET i == CHOOSE x \in ids : TRUE
         IN  d[i] + SumOver(d, ids \ {i})

\* a float score, as the exact fraction num / den
Score(n, d) == [num |-> n, den |-> d]

\* score < tnum / tden
ScoreLess(score, tnum, tden) == score.num * tden < tnum * score.den

\* score <= tnum / tden
ScoreLessEq(score, tnum, tden) == score.num * tden <= tnum * score.den

\* get_score_level with every comparison written <= instead of <
get_score_level_inclusive(score) ==
    IF ScoreLessEq(score, 1, 1) THEN "VeryLow"
    ELSE IF ScoreLessEq(score, 5, 2) THEN "Low"
    ELSE IF ScoreLessEq(score, 7, 2) THEN "SomewhatLow"
    ELSE IF ScoreLessEq(score, 9, 2) THEN "Average"
    ELSE IF ScoreLessEq(score, 11, 2) THEN "High"
    ELSE "VeryHigh"

\* ---- get_score_level ----
\* the label half of the (label, colour) pair
get_score_level(score) ==
    IF ScoreLess(score, 1, 1) THEN "VeryLow"
    ELSE IF ScoreLess(score, 5, 2) THEN "Low"
    ELSE IF ScoreLess(score, 7, 2) THEN "SomewhatLow"
    ELSE IF ScoreLess(score, 9, 2) THEN "Average"
    ELSE IF ScoreLess(score, 11, 2) THEN "High"
    ELSE "VeryHigh"

\* ---- calculate_scores ----
\* the Vigor group with item 3 in the place of item 5
vigor_items_with_3 == <<1, 2, 3>>

vigor_items == <<1, 2, 5>>
dedication_items == <<3, 4, 7>>
absorption_items == <<6, 8, 9>>

Range(s) == {s[k] : k \in 1..Len(s)}

\* the subscripts responses[i] in the order the three sums evaluate them
LookupOrder == vigor_items \o dedication_items \o absorption_items

\* the first subscript that is not a key of the dict, 0 when all are keys
FirstMissing(responses) ==
    LET bad == {k \in 1..Len(LookupOrder) : LookupOrder[k] \notin Keys(responses)}
    IN  IF bad = {} THEN 0
        ELSE LookupOrder[CHOOSE k \in bad : \A j \in bad : k <= j]

\* calculate_scores with the overall sum divided by the size of a subscale
\* group instead of len(responses)
calculate_scores_group_divisor(responses) ==
    IF FirstMissing(responses) # 0
    THEN [raised |-> "KeyError", key |-> FirstMissing(responses)]
    ELSE [raised |-> "none",
          vigor |-> Score(SumOver(responses, Range(vigor_items)), Len(vigor_items)),
          dedication |-> Score(SumOver(responses, Range(dedication_items)), Len(dedication_items)),
          absorption |-> Score(SumOver(responses, Range(absorption_items)), Len(absorption_items)),
          total |-> Score(SumOver(responses, Keys(responses)), Len(vigor_items))]

\* the outcome of a call: the dict of four scores, or the KeyError raised
\* by the first responses[i] whose key is absent
calculate_scores(responses) ==
    IF FirstMissing(responses) # 0
    THEN [raised |-> "KeyError", key |-> FirstMissing(responses)]
    ELSE [raised |-> "none",
          vigor |-> Score(SumOver(responses, Range(vigor_items)), Len(vigor_items)),
          dedication |-> Score(SumOver(responses, Range(dedication_items)), Len(dedication_items)),
          absorption |-> Score(SumOver(responses, Range(absorption_items)), Len(absorption_items)),
          total |-> Score(SumOver(responses, Keys(responses)), Cardinality(Keys(responses)))]

\* ---- get_interpretation ----
\* the keys of the interpretations dict
InterpretationKeys == {"VeryLow", "Low", "SomewhatLow", "Average", "High", "VeryHigh"}

\* the narrative stored under each key, abbreviated to a tag
interpretations ==
    [l \in InterpretationKeys |->
        CASE l = "VeryLow" -> "narrative_very_low"
          [] l = "Low" -> "narrative_low"
          [] l = "SomewhatLow" -> "narrative_somewhat_low"
          [] l = "Average" -> "narrative_average"
          [] l = "High" -> "narrative_high"
          [] l = "VeryHigh" -> "narrative_very_high"]

\* interpretations.get(level, ""): dict.get raises nothing, a key that is
\* absent yields the default
InterpretationsGet(level) ==
    [raised |-> "none",
     value |-> IF level \in DOMAIN interpretations THEN interpretations[level] ELSE ""]

get_interpretation(scores) == InterpretationsGet(get_score_level(scores.total)).value

\* ---- the results tab ----
\* get_score_level applied to the overall score and to each subscale score
ScoreLevels(scores) ==
    [total |-> get_score_level(scores.total),
     vigor |-> get_score_level(scores.vigor),
     dedication |-> get_score_level(scores.dedication),
     absorption |-> get_score_level(scores.absorption)]

\* the export row: the four scores, then Q1..Q9 from the stored dict (the
\* timestamp column, read from the clock and used by nothing else, is left out)
ExportData(stored, scores) ==
    [total |-> scores.total,
     vigor |-> scores.vigor,
     dedication |-> scores.dedication,
     absorption |-> scores.absorption,
     Q |-> stored]

\* what the else branch of the results tab shows
InfoOnly == [kind |-> "info"]

\* the body of "if submitted and responses": an exception raised on the way
\* ends the script run, otherwise the results are on the page
Results(stored) ==
    LET scores == calculate_scores(stored) IN
    IF scores.raised # "none"
    THEN [kind |-> "exception", raised |-> "KeyError"]
    ELSE IF \E q \in Keys(stored) : q \notin Items \/ stored[q] \notin ScaleOptions
    THEN [kind |-> "exception", raised |-> "KeyError"]
    ELSE [kind |-> "results",
          scores |-> scores,
          levels |-> ScoreLevels(scores),
          interpretation |-> get_interpretation(scores),
          export |-> ExportData(stored, scores)]

\* one run of the script body below the tabs, as far as the results tab
RenderTab2(isSubmitted, stored) ==
    IF isSubmitted /\ Keys(stored) # {} THEN Results(stored) ELSE InfoOnly

\* ---- the session ----
VARIABLES
    sliders,      \* the widget state slider_1 .. slider_9
    answered,     \* the items whose slider value was set by the user
    changes,      \* the number of slider changes made so far
    submitted,    \* st.session_state.submitted
    responses,    \* st.session_state.responses
    shown,        \* what the results tab shows after the last script run
    lastOp,       \* the user action that caused the last script run
    arg,          \* the argument of a direct call of a scoring function
    ret           \* the outcome of that call

vars == <<sliders, answered, changes, submitted, responses, shown, lastOp, arg, ret>>

NoArg == [type |-> "none"]
NoCall == [fn |-> "none"]

\* the first script run of a session: both session keys are initialised,
\* every slider takes its default and the results tab shows the hint
Init ==
    /\ sliders = [q \in Items |-> DefaultResponse]
    /\ answered = {}
    /\ changes = 0
    /\ submitted = FALSE
    /\ responses = EmptyDict
    /\ shown = RenderTab2(FALSE, EmptyDict)
    /\ lastOp = "open"
    /\ arg = NoArg
    /\ ret = NoCall

\* ChangeSlider writing the moved slider through to the stored dict once
\* the session is submitted
ChangeSlider_live(q, v) ==
    /\ changes < MaxChanges
    /\ v # sliders[q]
    /\ sliders' = [sliders EXCEPT ![q] = v]
    /\ answered' = answered \cup {q}
    /\ changes' = changes + 1
    /\ responses' = IF submitted THEN [responses EXCEPT ![q] = v] ELSE responses
    /\ shown' = RenderTab2(submitted, responses')
    /\ lastOp' = "slider"
    /\ UNCHANGED <<submitted, arg, ret>>

\* the user moves slider q to v; the script reruns, no button is pressed
ChangeSlider(q, v) ==
    /\ changes < MaxChanges
    /\ v # sliders[q]
    /\ sliders' = [sliders EXCEPT ![q] = v]
    /\ answered' = answered \cup {q}
    /\ changes' = changes + 1
    /\ shown' = RenderTab2(submitted, responses)
    /\ lastOp' = "slider"
    /\ UNCHANGED <<submitted, responses, arg, ret>>

\* the slider loop leaving out the items still at the default
CollectResponses_skip_default(widgets) ==
    [q \in {i \in Items : widgets[i] # DefaultResponse} |-> widgets[q]]

\* the dict the slider loop builds in one script run
CollectResponses(widgets) == [q \in Items |-> widgets[q]]

\* the user presses the submit button: the dict built from the sliders is
\* stored, submitted is set and st.rerun() starts the run that shows it
Submit ==
    /\ responses' = CollectResponses(sliders)
    /\ submitted' = TRUE
    /\ shown' = RenderTab2(submitted', responses')
    /\ lastOp' = "submit"
    /\ UNCHANGED <<sliders, answered, changes, arg, ret>>

\* Download scoring the dict built from the sliders in this run instead of
\* the stored one
Download_from_sliders ==
    /\ submitted /\ Keys(responses) # {}
    /\ shown' = RenderTab2(submitted, [q \in Items |-> sliders[q]])
    /\ lastOp' = "download"
    /\ UNCHANGED <<sliders, answered, changes, submitted, responses, arg, ret>>

\* the user presses the download button, which only exists on the results
\* page; the script reruns with the session state as it is
Download ==
    /\ submitted /\ Keys(responses) # {}
    /\ shown' = RenderTab2(submitted, responses)
    /\ lastOp' = "download"
    /\ UNCHANGED <<sliders, answered, changes, submitted, responses, arg, ret>>

\* the sliders after the stored dict is emptied: the default passed as value=
\* goes back to 3, and a slider whose default changed is either kept under
\* its key or rebuilt with the new default, depending on the Streamlit build
SlidersAfterReset(widgets, stored, keyed) ==
    [q \in Items |->
        IF keyed \/ stored[q] = DefaultResponse THEN widgets[q] ELSE DefaultResponse]

\* Reset without the assignment submitted = False
Reset_keeps_submitted ==
    /\ submitted /\ Keys(responses) # {}
    /\ submitted' = submitted
    /\ responses' = EmptyDict
    /\ \E keyed \in BOOLEAN :
          /\ sliders' = [q \in Items |->
                IF keyed \/ responses[q] = DefaultResponse THEN sliders[q] ELSE DefaultResponse]
          /\ answered' = {q \in answered : sliders'[q] = sliders[q]}
    /\ shown' = RenderTab2(submitted', responses')
    /\ lastOp' = "reset"
    /\ UNCHANGED <<changes, arg, ret>>

\* the user presses the reset button, which only exists on the results page
Reset ==
    /\ submitted /\ Keys(responses) # {}
    /\ submitted' = FALSE
    /\ responses' = EmptyDict
    /\ \E keyed \in BOOLEAN :
          /\ sliders' = SlidersAfterReset(sliders, responses, keyed)
          /\ answered' = {q \in answered : sliders'[q] = sliders[q]}
    /\ shown' = RenderTab2(submitted', responses')
    /\ lastOp' = "reset"
    /\ UNCHANGED <<changes, arg, ret>>

Next ==
    \/ \E q \in Items, v \in ScaleOptions : ChangeSlider(q, v)
    \/ Submit
    \/ Download
    \/ Reset

Spec == Init /\ [][Next]_vars

\* ---- the scoring functions called directly ----
\* values written into an argument dict: the scale, and one integer beyond
\* each end of it
EditValues == -1..7

\* the uniform answer sheet with every item answered b
Uniform(b) == [q \in Items |-> b]

\* the sheet with the items of D deleted and each item q of DOMAIN e
\* overwritten with e[q]
Edited(sheet, D, e) ==
    [q \in Items \ D |-> IF q \in DOMAIN e THEN e[q] ELSE sheet[q]]

\* floats in [0, 6]: the halves, thirds and ninths
FloatArgs == {Score(n, d) : <<n, d>> \in {<<n, d>> \in (0..54) \X {2, 3, 9} : n <= 6 * d}}

\* strings: the six labels and one that is no label
StrArgs == InterpretationKeys \cup {"Unmapped"}

FnInit ==
    /\ sliders = [q \in Items |-> DefaultResponse]
    /\ answered = {}
    /\ changes = 0
    /\ submitted = FALSE
    /\ responses = EmptyDict
    /\ shown = InfoOnly
    /\ lastOp = "open"
    /\ ret = NoCall
    /\ \/ \E b \in ScaleOptions, D \in SUBSET Items :
            /\ Cardinality(D) <= MaxEdits
            /\ \E F \in SUBSET (Items \ D) :
                  /\ Cardinality(D) + Cardinality(F) <= MaxEdits
                  /\ \E e \in [F -> EditValues] :
                        arg = [type |-> "dict", dict |-> Edited(Uniform(b), D, e)]
       \/ \E f \in FloatArgs : arg = [type |-> "float", float |-> f]
       \/ \E l \in StrArgs : arg = [type |-> "str", str |-> l]

FnFrame == UNCHANGED <<sliders, answered, changes, submitted, responses, shown, lastOp, arg>>

CallCalculateScores ==
    /\ arg.type = "dict"
    /\ ret' = [fn |-> "calculate_scores", out |-> calculate_scores(arg.dict)]
    /\ FnFrame

CallGetScoreLevel ==
    /\ arg.type = "float"
    /\ ret' = [fn |-> "get_score_level", out |-> get_score_level(arg.float)]
    /\ FnFrame

\* the results tab's use of the scores: the level of each, and the narrative
CallLevelsOfScores ==
    /\ arg.type = "dict"
    /\ calculate_scores(arg.dict).raised = "none"
    /\ ret' = [fn |-> "levels",
               out |-> ScoreLevels(calculate_scores(arg.dict)),
               text |-> get_interpretation(calculate_scores(arg.dict))]
    /\ FnFrame

\* the dict lookup that ends get_interpretation, on a given level
CallInterpretationsGet ==
    /\ arg.type = "str"
    /\ ret' = [fn |-> "interpretations.get", out |-> InterpretationsGet(arg.str)]
    /\ FnFrame

FnNext ==
    \/ CallCalculateScores
    \/ CallGetScoreLevel
    \/ CallLevelsOfScores
    \/ CallInterpretationsGet

FnSpec == FnInit /\ [][FnNext]_vars

\* ---- properties ----
\* a complete ResponseSet: exactly the ids 1..9, each value on the scale
IsComplete(d) == Keys(d) = Items /\ \A q \in Items : d[q] \in ScaleOptions

ScoreNames == {"vigor", "dedication", "absorption", "total"}

\* C1: on every complete ResponseSet calculate_scores returns
\* Vigor = (r1+r2+r5)/3, Dedication = (r3+r4+r7)/3, Absorption = (r6+r8+r9)/3
\* and Overall = (r1+...+r9)/9, and the three groups are disjoint, have three
\* ids each and cover 1..9.
C1_GroupMeans ==
    /\ Len(vigor_items) = 3 /\ Len(dedication_items) = 3 /\ Len(absorption_items) = 3
    /\ Range(vigor_items) \cap Range(dedication_items) = {}
    /\ Range(vigor_items) \cap Range(absorption_items) = {}
    /\ Range(dedication_items) \cap Range(absorption_items) = {}
    /\ Range(vigor_items) \cup Range(dedication_items) \cup Range(absorption_items) = Items
    /\ (ret.fn = "calculate_scores" /\ IsComplete(arg.dict)) =>
          LET r == arg.dict
              s == ret.out
          IN  /\ s.raised = "none"
              /\ \A n \in ScoreNames : s[n].den > 0
              /\ 3 * s.vigor.num = (r[1] + r[2] + r[5]) * s.vigor.den
              /\ 3 * s.dedication.num = (r[3] + r[4] + r[7]) * s.dedication.den
              /\ 3 * s.absorption.num = (r[6] + r[8] + r[9]) * s.absorption.den
              /\ 9 * s.total.num =
                    (r[1] + r[2] + r[3] + r[4] + r[5] + r[6] + r[7] + r[8] + r[9]) * s.total.den

\* C1 witness: a complete sheet whose answers differ between the groups has
\* been scored, and Vigor and Dedication came out different
C1_Witness ==
    /\ ret.fn = "calculate_scores"
    /\ IsComplete(arg.dict)
    /\ arg.dict[5] # arg.dict[3]
    /\ ret.out.raised = "none"
    /\ ret.out.vigor # ret.out.dedication

\* C2: on every complete ResponseSet each of the four scores lies in [0, 6],
\* so every level computed from them is computed inside the banding domain.
C2_ScoresInRange ==
    /\ (ret.fn = "calculate_scores" /\ IsComplete(arg.dict)) =>
          /\ ret.out.raised = "none"
          /\ \A n \in ScoreNames :
                /\ ret.out[n].den > 0
                /\ 0 <= ret.out[n].num
                /\ ret.out[n].num <= 6 * ret.out[n].den
    /\ (ret.fn = "levels" /\ IsComplete(arg.dict)) =>
          \A n \in ScoreNames :
              LET x == calculate_scores(arg.dict)[n]
              IN  x.den > 0 /\ 0 <= x.num /\ x.num <= 6 * x.den

\* C2 witness: the all-six sheet has been scored and the overall score is 6
C2_Witness ==
    /\ ret.fn = "calculate_scores"
    /\ arg.dict = Uniform(6)
    /\ ret.out.raised = "none"
    /\ ret.out.total.num = 6 * ret.out.total.den

\* C3: get_score_level maps every score in [0, 6] to exactly one of six bands
\* with upper-exclusive boundaries 1.0, 2.5, 3.5, 4.5, 5.5 (so 1.0 is Low, 3.5
\* is Average, 5.5 is Very High); the all-zero sheet gets Very Low and the
\* all-six sheet Very High for every score.
C3_Bands ==
    /\ ret.fn = "get_score_level" =>
          LET n == arg.float.num
              d == arg.float.den
              l == ret.out
          IN  /\ l \in InterpretationKeys
              /\ (l = "VeryLow") <=> (n < d)
              /\ (l = "Low") <=> (d <= n /\ 2 * n < 5 * d)
              /\ (l = "SomewhatLow") <=> (5 * d <= 2 * n /\ 2 * n < 7 * d)
              /\ (l = "Average") <=> (7 * d <= 2 * n /\ 2 * n < 9 * d)
              /\ (l = "High") <=> (9 * d <= 2 * n /\ 2 * n < 11 * d)
              /\ (l = "VeryHigh") <=> (11 * d <= 2 * n)
    /\ (ret.fn = "levels" /\ arg.dict = Uniform(0)) =>
          \A n \in ScoreNames : ret.out[n] = "VeryLow"
    /\ (ret.fn = "levels" /\ arg.dict = Uniform(6)) =>
          \A n \in ScoreNames : ret.out[n] = "VeryHigh"

\* C3 witness: the score 3.5, a boundary, has been banded as Average
C3_Witness ==
    /\ ret.fn = "get_score_level"
    /\ 2 * arg.float.num = 7 * arg.float.den
    /\ ret.out = "Average"

\* C4: calculate_scores on a ResponseSet that is not complete (an id missing,
\* or a value outside [0, 6]) signals an error and returns no scores.
C4_IncompleteRaises ==
    (ret.fn = "calculate_scores" /\ ~IsComplete(arg.dict)) => ret.out.raised # "none"

\* C5: the session goes from Collecting to Submitted only on a submit with all
\* nine items answered by the user; a submit with an unanswered item leaves
\* the session in Collecting and stores no default for that item.
C5_SubmitNeedsAllAnswered ==
    [][(lastOp' = "submit" /\ answered # Items) =>
          (submitted' = submitted /\ responses' = responses)]_vars

\* C6: reset is the only action that leaves Submitted, and it leaves
\* submitted = false and the stored ResponseSet empty; while submitted is
\* false no ScoreReport is shown.
C6_ResetFresh ==
    /\ [][(submitted /\ ~submitted') => lastOp' = "reset"]_vars
    /\ [][lastOp' = "reset" =>
            (submitted /\ ~submitted' /\ Keys(responses') = {} /\ shown'.kind = "info")]_vars
    /\ [](~submitted => shown.kind = "info")

\* C6 witness: a session that was submitted with a changed slider has been reset
C6_Witness ==
    /\ lastOp = "reset"
    /\ changes > 0
    /\ ~submitted
    /\ Keys(responses) = {}

C9_FrozenAtSubmit ==
    /\ [][lastOp' = "slider" =>
            /\ responses' = responses
            /\ shown.kind = "results" =>
                  /\ shown'.kind = "results"
                  /\ shown'.scores = shown.scores
                  /\ shown'.levels = shown.levels
                  /\ shown'.export.Q = shown.export.Q]_vars
    /\ [](shown.kind = "results" => shown.export.Q = responses)

\* C9 witness: a slider was moved after submission and the export row still
\* holds the stored answer, not the slider's
C9_Witness ==
    /\ lastOp = "slider"
    /\ shown.kind = "results"
    /\ \E q \in Items : sliders[q] # responses[q] /\ shown.export.Q[q] = responses[q]

\* C10: in every reachable state the stored ResponseSet is empty or complete,
\* submitted implies complete, and results are only ever computed from a
\* complete set (no script run ends in an exception).
C10_EmptyOrComplete ==
    /\ Keys(responses) = {} \/ IsComplete(responses)
    /\ submitted => IsComplete(responses)
    /\ shown.kind \in {"info", "results"}
    /\ shown.kind = "results" => IsComplete(responses)

\* C10 witness: answers other than the defaults are stored and submitted
C10_Witness ==
    /\ submitted
    /\ IsComplete(responses)
    /\ \E q \in Items : responses[q] # DefaultResponse

====
